---- MODULE Spec2Model ----
(***************************************************************************)
(* The four list-and-mutate screens of the admin dashboard (Messages,     *)
(* Users, Orders, Products), each a React component holding a local list  *)
(* and talking to the hosted document store through client.fetch,         *)
(* client.create, client.patch(..).set(..).commit() and client.delete.    *)
(*                                                                         *)
(* One screen is mounted at a time (each is a route of its own), so the    *)
(* state is the state of the mounted screen plus the documents of that     *)
(* screen's type in the backend and the backend calls in flight.  A        *)
(* handler that awaits a backend call is three steps: the synchronous      *)
(* prefix that issues the call, the backend serving it, and the            *)
(* continuation that runs when the response is delivered.  Responses are   *)
(* delivered in any order.  alert is the message of the alert() the last   *)
(* step raised, ev the handler step that was taken last: the name of a     *)
(* continuation and its outcome with the id it was about, "rejected",      *)
(* "declined", "submitAdd", "add", "edit" and "cancel" for those handler   *)
(* steps, "step" otherwise.                                                *)
(*                                                                         *)
(* Documents and form buffers are functions from field names to values;    *)
(* <<>> is the empty object {} and also stands for null.  Numbers typed    *)
(* into inputs are strings, as e.target.value is.  Of a document's fields  *)
(* the model keeps those the handlers read and one or two that carry its   *)
(* content; image upload and the image preview of the Products screen are  *)
(* left out.                                                               *)
(*                                                                         *)
(* The landing page (the gated AdminDashboard) is a component of its own   *)
(* with the state email, authorized and error; it talks to no backend and  *)
(* is mounted on its own route, so it has a specification of its own       *)
(* (SpecGate) and its state stays as constructed while a screen is         *)
(* mounted.  Text typed into its input is a sequence of characters.        *)
(***************************************************************************)
EXTENDS Integers, Sequences, FiniteSets, TLC

VARIABLES screen, db, nextId, calls, list, loading, editing, showAddForm,
          formState, alert, ev, email, authorized, error

\* The state of the gated AdminDashboard.
gate == <<email, authorized, error>>

vars == <<screen, db, nextId, calls, list, loading, editing, showAddForm,
          formState, alert, ev, email, authorized, error>>

\* Bounds of the model.
MaxId == 2
MaxInFlight == 2

Screens == {"messages", "users", "orders", "products"}
FormScreens == {"users", "orders", "products"}

Null == <<>>

\* editingUser / editingOrder / editingProduct: the handlers and the
\* markup read its _id and whether it is null, so the model keeps the _id,
\* and NoRecord for null.
NoRecord == 0
NoAlert == ""

Has(f, k) == k \in DOMAIN f

\* JavaScript truthiness of a string-valued field: f.k is neither undefined
\* nor the empty string.
Truthy(f, k) == Has(f, k) /\ f[k] # ""

RemoveAt(s, i) == SubSeq(s, 1, i - 1) \o SubSeq(s, i + 1, Len(s))

Ids(s) == {s[k]._id : k \in 1..Len(s)}

SeqMap(s, Op(_)) == [k \in 1..Len(s) |-> Op(s[k])]

(***************************************************************************)
(* The documents.                                                          *)
(***************************************************************************)
AddressFields == {"street", "city", "state", "country", "postalCode"}

FullAddress == [k \in AddressFields |-> "a"]

MessageDoc(i, p) ==
  [_id |-> i, name |-> "n", email |-> "e", message |-> "m", createdAt |-> i,
   pinned |-> p]

UserDoc(i) ==
  [_id |-> i, name |-> "a", email |-> "a", mobileNumber |-> "a",
   password |-> "a", address |-> FullAddress, isVerified |-> FALSE,
   role |-> "user"]

\* An order as the storefront writes it: cartItems is an array of objects
\* that hold a reference to a product.
OrderDoc(i) ==
  [_id |-> i, fullName |-> "a", status |-> "pending",
   cartItems |-> << [product |-> [_ref |-> "p"]] >>]

\* An order as handleAddNew of the Orders screen writes it when no product
\* id was typed: cartItems is the empty array.
DashboardOrder(i) == [OrderDoc(i) EXCEPT !.cartItems = <<>>]

ProductDoc(i) ==
  [_id |-> i, name |-> "a", stockLevel |-> "1", category |-> "Chair"]

InitDb(s, pins) ==
  CASE s = "messages" -> [i \in 1..MaxId |-> MessageDoc(i, pins[i])]
    [] s = "users" -> (1 :> UserDoc(1))
    [] s = "orders" -> (1 :> DashboardOrder(1))
    [] s = "products" -> (1 :> ProductDoc(1))

(***************************************************************************)
(* The queries.                                                            *)
(***************************************************************************)
\* order(pinned desc, createdAt desc)
MessageBefore(d, e) ==
  \/ d.pinned /\ ~e.pinned
  \/ d.pinned = e.pinned /\ d.createdAt > e.createdAt

RECURSIVE OrderMessages(_)
OrderMessages(S) ==
  IF S = {} THEN <<>>
  ELSE LET m == CHOOSE d \in S : \A e \in S \ {d} : MessageBefore(d, e)
       IN <<m>> \o OrderMessages(S \ {m})

\* A query with no order() clause: documents in ascending _id order.
RECURSIVE OrderById(_)
OrderById(S) ==
  IF S = {} THEN <<>>
  ELSE LET m == CHOOSE d \in S : \A e \in S : d._id <= e._id
       IN <<m>> \o OrderById(S \ {m})

Docs(d) == {d[i] : i \in DOMAIN d}

\* cartItems[]{quantity, product->{_id, name, ...}} on one element of the
\* array: an object with a reference has the reference followed; an element
\* that is no object (a product id string, written [id |-> ..]) projects to
\* null.
ExpandItem(item) ==
  IF Has(item, "product") THEN [product |-> [_id |-> item.product._ref]]
  ELSE Null

ExpandOrder(doc) ==
  [doc EXCEPT !.cartItems = [j \in 1..Len(@) |-> ExpandItem(@[j])]]

QueryResult(s, d) ==
  CASE s = "messages" -> OrderMessages(Docs(d))
    [] s = "orders" ->
         LET r == OrderById(Docs(d))
         IN [k \in 1..Len(r) |-> ExpandOrder(r[k])]
    [] OTHER -> OrderById(Docs(d))

(***************************************************************************)
(* Backend calls in flight.  h names the handler whose continuation runs   *)
(* when the call resolves, id the document the call is about (for the      *)
(* fetch that handleAddNew of Orders awaits, the order it has created),    *)
(* set the payload, cap the list the handler's closure captured, st the    *)
(* state of the call and res the response.                                 *)
(***************************************************************************)
Call(op, h, id, set, cap) ==
  [op |-> op, h |-> h, id |-> id, set |-> set, cap |-> cap, st |-> "sent",
   res |-> Null]

FetchCall(h) == Call("fetch", h, 0, Null, Null)

Ev(h, id) == [h |-> h, id |-> id]

CanIssue == Len(calls) < MaxInFlight

\* useState(""), useState(false), useState("")
GateInit ==
  /\ email = <<>>
  /\ authorized = FALSE
  /\ error = ""

Init ==
  /\ GateInit
  /\ screen \in Screens
  /\ \E pins \in [1..MaxId -> BOOLEAN] :
       db = InitDb(screen, IF screen = "messages" THEN pins
                           ELSE [i \in 1..MaxId |-> FALSE])
  /\ nextId = IF screen = "messages" THEN MaxId + 1 ELSE 2
  /\ calls = <<FetchCall("load")>>
  /\ list = <<>>
  /\ loading = TRUE
  /\ editing = NoRecord
  /\ showAddForm = FALSE
  /\ formState = Null
  /\ alert = NoAlert
  /\ ev = Ev("mount", 0)

\* fetchMessages / fetchUsers / fetchOrders / fetchProducts up to the await.
Refresh ==
  /\ CanIssue
  /\ loading' = TRUE
  /\ calls' = Append(calls, FetchCall("load"))
  /\ alert' = NoAlert
  /\ ev' = Ev("step", 0)
  /\ UNCHANGED <<screen, db, nextId, list, editing, showAddForm, formState>>
  /\ UNCHANGED gate

(***************************************************************************)
(* The backend.  A call is served at some moment between its issue and    *)
(* the delivery of its response: a query sees the documents of that       *)
(* moment, a mutation is applied at that moment.  A call that fails is    *)
(* one the backend never applied.                                          *)
(***************************************************************************)
Served(c, r) == [c EXCEPT !.st = "ok", !.res = r]

Backend(i) ==
  /\ i \in 1..Len(calls)
  /\ calls[i].st = "sent"
  /\ alert' = NoAlert
  /\ ev' = Ev("step", 0)
  /\ UNCHANGED <<screen, list, loading, editing, showAddForm, formState>>
  /\ UNCHANGED gate

\* client.fetch: the query result.
ServeFetch(i) ==
  /\ Backend(i)
  /\ calls[i].op = "fetch"
  /\ calls' = [calls EXCEPT ![i] = Served(@, QueryResult(screen, db))]
  /\ UNCHANGED <<db, nextId>>

\* client.delete(id): deleting a document that is not there succeeds too.
ServeDelete(i) ==
  /\ Backend(i)
  /\ calls[i].op = "delete"
  /\ db' = [j \in DOMAIN db \ {calls[i].id} |-> db[j]]
  /\ calls' = [calls EXCEPT ![i] = Served(@, Null)]
  /\ UNCHANGED nextId

\* client.patch(id).set(fields).commit(): the named fields are overwritten,
\* the others kept; the response is the whole updated document.
PatchDoc(doc, set) == set @@ doc

\* _id is immutable: a patch that would give the document another _id is
\* one the backend does not apply.
ServePatch(i) ==
  /\ Backend(i)
  /\ calls[i].op = "patch"
  /\ calls[i].id \in DOMAIN db
  /\ Has(calls[i].set, "_id") => calls[i].set._id = calls[i].id
  /\ LET doc == PatchDoc(db[calls[i].id], calls[i].set)
     IN /\ db' = [db EXCEPT ![calls[i].id] = doc]
        /\ calls' = [calls EXCEPT ![i] = Served(@, doc)]
  /\ UNCHANGED nextId

\* client.create(doc): the backend assigns the id; the response is the
\* persisted document.
ServeCreate(i) ==
  /\ Backend(i)
  /\ calls[i].op = "create"
  /\ nextId <= MaxId
  /\ LET doc == ("_id" :> nextId) @@ calls[i].set
     IN /\ db' = (nextId :> doc) @@ db
        /\ calls' = [calls EXCEPT ![i] = Served(@, doc)]
  /\ nextId' = nextId + 1

(***************************************************************************)
(* The view-model mappers.                                                 *)
(***************************************************************************)
\* { k: doc.k, ... } for the listed fields; a field the document lacks is
\* undefined in the result, that is, absent.
Project(doc, fields) == [k \in fields \cap DOMAIN doc |-> doc[k]]

MessageFields == {"_id", "name", "email", "message", "createdAt", "pinned"}
UserFields ==
  {"_id", "name", "email", "mobileNumber", "password", "address",
   "isVerified", "role"}
OrderFields == {"_id", "fullName", "status", "cartItems"}
ProductFields == {"_id", "name", "stockLevel", "category"}

\* The local record made of one document of a query result.
Local(s, doc) ==
  CASE s = "messages" -> doc
    [] s = "users" -> Project(doc, UserFields)
    [] s = "orders" -> doc
    [] s = "products" -> Project(doc, ProductFields)

(***************************************************************************)
(* Continuations: what a handler does once its call has resolved.         *)
(***************************************************************************)
\* The await of call i of handler h returns (ok) or throws (~ok): a served
\* call returns its response, a call the backend has not applied is rejected.
Resolved(i, h, ok) ==
  /\ i \in 1..Len(calls)
  /\ calls[i].h = h
  /\ calls[i].st = IF ok THEN "ok" ELSE "sent"
  /\ ev' = Ev(h \o (IF ok THEN "Ok" ELSE "Failed"),
              IF calls[i].op = "create" /\ ok
              THEN calls[i].res._id ELSE calls[i].id)
  /\ UNCHANGED <<screen, db, nextId>>
  /\ UNCHANGED gate

Noun(s) ==
  CASE s = "messages" -> "message"
    [] s = "users" -> "user"
    [] s = "orders" -> "order"
    [] s = "products" -> "product"

\* handleCancel of the Orders and Products screens.
HandleCancel ==
  /\ editing' = NoRecord
  /\ showAddForm' = FALSE
  /\ formState' = Null

\* A deletion by position that does not test whether the id was found.
ListAfterDeleteSplice(s, l, id, ok) ==
  IF ok /\ s # "products"
  THEN IF id \in Ids(l) THEN SelectSeq(l, LAMBDA r : r._id # id)
       ELSE SubSeq(l, 1, Len(l) - 1)
  ELSE l

\* A deletion that removes the card whether or not the backend deleted.
ListAfterDeleteOptimistic(s, l, id, ok) ==
  IF s = "products" THEN l ELSE SelectSeq(l, LAMBDA r : r._id # id)

\* The list handleDelete leaves: after a deletion that succeeded,
\* setX((prev) => prev.filter((r) => r._id !== id)), where Products
\* refetches instead and leaves the list to the fetch; after one that
\* failed, the list as it is.
ListAfterDelete(s, l, id, ok) ==
  IF ok /\ s # "products" THEN SelectSeq(l, LAMBDA r : r._id # id) ELSE l

\* A map that forgets the id test and writes the flag into every message.
ListAfterTogglePinAll(l, id, updated) ==
  SeqMap(l, LAMBDA m : [m EXCEPT !.pinned = updated.pinned])

\* prev.map((msg) => msg._id === id ? { ...msg, pinned: updated.pinned } : msg)
ListAfterTogglePin(l, id, updated) ==
  SeqMap(l, LAMBDA m :
    IF m._id = id THEN [m EXCEPT !.pinned = updated.pinned] ELSE m)

\* A map that writes a status neither list filters on.
ListAfterCompleteMisspelt(l, id) ==
  SeqMap(l, LAMBDA o :
    IF o._id = id THEN [o EXCEPT !.status = "complete"] ELSE o)

\* prev.map((order) => order._id === orderId
\*                       ? { ...order, status: "completed" } : order)
ListAfterComplete(l, id) ==
  SeqMap(l, LAMBDA o :
    IF o._id = id THEN [o EXCEPT !.status = "completed"] ELSE o)

\* The list handleUpdate maps over: Users and Orders use a functional
\* update (prev), Products the products of the render that submitted.
UpdateBase(s, prev, captured) == IF s = "products" THEN captured ELSE prev

\* base.map((r) => r._id === editing._id ? updated : r)
ListAfterUpdate(base, id, updated) ==
  SeqMap(base, LAMBDA r : IF r._id = id THEN updated ELSE r)

\* [...prev, created]
ListAfterCreate(l, created) == Append(l, created)

\* A load that adds the query result to the list it finds.
LoadDoneMerging(i, ok) ==
  /\ Resolved(i, "load", ok)
  /\ list' = IF ok
             THEN list \o SeqMap(calls[i].res, LAMBDA d : Local(screen, d))
             ELSE list
  /\ loading' = FALSE
  /\ calls' = RemoveAt(calls, i)
  /\ alert' = NoAlert
  /\ UNCHANGED <<editing, showAddForm, formState>>

\* A load that drops its result when a load requested later is in flight.
LoadDoneLatestRequest(i, ok) ==
  /\ Resolved(i, "load", ok)
  /\ list' = IF ok /\ \A j \in (i + 1)..Len(calls) : calls[j].op # "fetch"
             THEN SeqMap(calls[i].res, LAMBDA d : Local(screen, d))
             ELSE list
  /\ loading' = FALSE
  /\ calls' = RemoveAt(calls, i)
  /\ alert' = NoAlert
  /\ UNCHANGED <<editing, showAddForm, formState>>

\* fetchX after the await: setX(data) or console.error, then setLoading(false).
LoadDone(i, ok) ==
  /\ Resolved(i, "load", ok)
  /\ list' = IF ok
             THEN SeqMap(calls[i].res, LAMBDA d : Local(screen, d))
             ELSE list
  /\ loading' = FALSE
  /\ calls' = RemoveAt(calls, i)
  /\ alert' = NoAlert
  /\ UNCHANGED <<editing, showAddForm, formState>>

\* handleDelete after the await.  Messages, Users and Orders filter the
\* list by id; Products calls fetchProducts() without awaiting it.
DeleteDone(i, ok) ==
  /\ Resolved(i, "delete", ok)
  /\ IF ok
     THEN /\ alert' = NoAlert
          /\ IF screen = "products"
             THEN /\ loading' = TRUE
                  /\ calls' = Append(RemoveAt(calls, i), FetchCall("load"))
             ELSE /\ calls' = RemoveAt(calls, i)
                  /\ loading' = loading
     ELSE /\ alert' = "Failed to delete " \o Noun(screen)
          /\ calls' = RemoveAt(calls, i)
          /\ loading' = loading
  /\ list' = ListAfterDelete(screen, list, calls[i].id, ok)
  /\ UNCHANGED <<editing, showAddForm, formState>>

\* togglePin after the await.
TogglePinDone(i, ok) ==
  /\ Resolved(i, "togglePin", ok)
  /\ IF ok
     THEN /\ list' = ListAfterTogglePin(list, calls[i].id, calls[i].res)
          /\ alert' = NoAlert
     ELSE /\ alert' = "Failed to update pin state"
          /\ list' = list
  /\ calls' = RemoveAt(calls, i)
  /\ UNCHANGED <<loading, editing, showAddForm, formState>>

\* handleComplete after the await.
CompleteDone(i, ok) ==
  /\ Resolved(i, "complete", ok)
  /\ IF ok
     THEN /\ list' = ListAfterComplete(list, calls[i].id)
          /\ alert' = NoAlert
     ELSE /\ alert' = "Failed to mark order as completed"
          /\ list' = list
  /\ calls' = RemoveAt(calls, i)
  /\ UNCHANGED <<loading, editing, showAddForm, formState>>

\* The record handleUpdate / handleAddNew puts in the list for a returned
\* document: Users and Orders take the document as it is, Products builds
\* updatedProduct / mappedNewProduct from its fields.
FromResponse(s, doc) ==
  IF s = "products" THEN Project(doc, ProductFields) ELSE doc

\* An update that closes the form whether or not the backend took it.
UpdateDoneClosing(i, ok) ==
  /\ Resolved(i, "update", ok)
  /\ IF ok
     THEN /\ list' = ListAfterUpdate(
                       UpdateBase(screen, list, calls[i].cap), calls[i].id,
                       FromResponse(screen, calls[i].res))
          /\ alert' = NoAlert
     ELSE /\ alert' = "Failed to update " \o Noun(screen)
          /\ list' = list
  /\ HandleCancel
  /\ calls' = RemoveAt(calls, i)
  /\ UNCHANGED loading

\* handleUpdate after the await.  Users and Orders map over the current
\* list (a functional update), Products over the list its closure captured.
UpdateDone(i, ok) ==
  /\ Resolved(i, "update", ok)
  /\ IF ok
     THEN /\ list' = ListAfterUpdate(
                       UpdateBase(screen, list, calls[i].cap), calls[i].id,
                       FromResponse(screen, calls[i].res))
          /\ HandleCancel
          /\ alert' = NoAlert
     ELSE /\ alert' = "Failed to update " \o Noun(screen)
          /\ UNCHANGED <<list, editing, showAddForm, formState>>
  /\ calls' = RemoveAt(calls, i)
  /\ UNCHANGED loading

\* A create that closes the form when the backend refused the document.
CreateDoneClosing(i, ok) ==
  /\ Resolved(i, "create", ok)
  /\ alert' = IF ok THEN NoAlert ELSE "Failed to create " \o Noun(screen)
  /\ list' = IF ok /\ screen # "orders"
             THEN ListAfterCreate(list, FromResponse(screen, calls[i].res))
             ELSE list
  /\ HandleCancel
  /\ calls' = RemoveAt(calls, i)
  /\ UNCHANGED loading

\* handleAddNew after the await of client.create.  Users appends and
\* closes the form (leaving editingUser as it is), Products appends and
\* calls handleCancel, Orders goes on to await fetchOrders().
CreateDone(i, ok) ==
  /\ Resolved(i, "create", ok)
  /\ IF ok
     THEN /\ alert' = NoAlert
          /\ CASE screen = "users" ->
                    /\ list' = ListAfterCreate(list, calls[i].res)
                    /\ showAddForm' = FALSE
                    /\ formState' = Null
                    /\ calls' = RemoveAt(calls, i)
                    /\ UNCHANGED <<editing, loading>>
               [] screen = "products" ->
                    /\ list' = ListAfterCreate(
                                 list, FromResponse(screen, calls[i].res))
                    /\ HandleCancel
                    /\ calls' = RemoveAt(calls, i)
                    /\ UNCHANGED loading
               [] screen = "orders" ->
                    /\ loading' = TRUE
                    /\ calls' = Append(RemoveAt(calls, i),
                                       [FetchCall("addFetch") EXCEPT
                                          !.id = calls[i].res._id])
                    /\ UNCHANGED <<list, editing, showAddForm, formState>>
     ELSE /\ alert' = "Failed to create " \o Noun(screen)
          /\ calls' = RemoveAt(calls, i)
          /\ UNCHANGED <<list, loading, editing, showAddForm, formState>>

\* handleAddNew of Orders after the await of fetchOrders(): fetchOrders has
\* caught its own error, so handleCancel runs either way.
AddFetchDone(i, ok) ==
  /\ Resolved(i, "addFetch", ok)
  /\ list' = IF ok
             THEN SeqMap(calls[i].res, LAMBDA d : Local(screen, d))
             ELSE list
  /\ loading' = FALSE
  /\ HandleCancel
  /\ calls' = RemoveAt(calls, i)
  /\ alert' = NoAlert

(***************************************************************************)
(* The form.                                                               *)
(***************************************************************************)
IsEditing == editing # NoRecord

\* {showAddForm && <form>} on Users, {isFormOpen && <form>} on Orders and
\* Products.
FormRendered ==
  /\ screen \in FormScreens
  /\ IF screen = "users" THEN showAddForm ELSE IsEditing \/ showAddForm

AddressNames ==
  {"address.street", "address.city", "address.state", "address.country",
   "address.postalCode"}

\* name.split(".")[1]
AddressField(name) ==
  CASE name = "address.street" -> "street"
    [] name = "address.city" -> "city"
    [] name = "address.state" -> "state"
    [] name = "address.country" -> "country"
    [] name = "address.postalCode" -> "postalCode"

\* handleFormChange: one change event on the input called name.
HandleFormChange(s, f, name, value) ==
  IF s = "users" /\ name \in AddressNames
  THEN ("address" :>
          ((AddressField(name) :> value) @@
             (IF Has(f, "address") THEN f.address ELSE Null))) @@ f
  ELSE (name :> value) @@ f

\* A burst of change events, applied one after the other.
RECURSIVE ApplyChanges(_, _, _)
ApplyChanges(s, f, b) ==
  IF b = <<>> THEN f
  ELSE ApplyChanges(s, HandleFormChange(s, f, b[1][1], b[1][2]), Tail(b))

UserTextInputs ==
  <<"name", "email", "mobileNumber", "password", "address.street",
    "address.city", "address.state", "address.country", "address.postalCode">>

FillUser ==
  [j \in 1..Len(UserTextInputs) |-> <<UserTextInputs[j], "a">>]
    \o << <<"isVerified", TRUE>> >>

\* What the user types between two other events: on Users every text
\* input and a click on the isVerified checkbox; on Orders and on Products
\* a name.
FormInputs(s) ==
  CASE s = "users" -> {FillUser}
    [] s = "orders" -> {<< <<"fullName", "a">> >>}
    [] s = "products" -> {<< <<"name", "b">> >>}
    [] OTHER -> {}

AddressTruthy(f, k) == Has(f, "address") /\ Truthy(f.address, k)

\* A required-fields test that forgets the postal code.
UserFieldsFilledButPostalCode(f) ==
  /\ Truthy(f, "name")
  /\ Truthy(f, "email")
  /\ Truthy(f, "mobileNumber")
  /\ Truthy(f, "password")
  /\ AddressTruthy(f, "street")
  /\ AddressTruthy(f, "city")
  /\ AddressTruthy(f, "state")
  /\ AddressTruthy(f, "country")

\* The required-fields test of AdminUsersPage.handleAddNew.
UserFieldsFilled(f) ==
  /\ Truthy(f, "name")
  /\ Truthy(f, "email")
  /\ Truthy(f, "mobileNumber")
  /\ Truthy(f, "password")
  /\ AddressTruthy(f, "street")
  /\ AddressTruthy(f, "city")
  /\ AddressTruthy(f, "state")
  /\ AddressTruthy(f, "country")
  /\ AddressTruthy(f, "postalCode")

\* value={formState.stockLevel || 0}: what the stock level input shows.
StockLevelShown(f) == IF Truthy(f, "stockLevel") THEN f.stockLevel ELSE "0"

\* The browser's constraint validation of the rendered form: every input
\* marked required shows a non-empty value.
NativeValid(s, f) ==
  CASE s = "users" ->
         /\ \A k \in {"name", "email", "mobileNumber", "password"} :
              Truthy(f, k)
         /\ \A k \in AddressFields : AddressTruthy(f, k)
    [] s = "orders" -> Truthy(f, "fullName")
    [] s = "products" ->
         /\ Truthy(f, "name")
         /\ StockLevelShown(f) # ""

\* newUserData of AdminUsersPage.handleAddNew, built once the required-
\* fields test has passed (so the buffer has an address); a property whose
\* value is undefined is not part of the document sent.
NewUserData(f) ==
  Project(f, {"name", "email", "mobileNumber", "password"}) @@
  [address |-> Project(f.address, AddressFields),
   isVerified |-> IF Has(f, "isVerified") THEN f.isVerified ELSE FALSE,
   role |-> IF Truthy(f, "role") THEN f.role ELSE "user"]

\* cartItemsArray of the Orders screen: formState.cartItems, a comma-
\* separated string of product ids (written as the sequence of the ids),
\* split into an array of id strings; [] when the buffer has none.
CartItemsArray(f) ==
  IF Has(f, "cartItems")
  THEN [j \in 1..Len(f.cartItems) |-> [id |-> f.cartItems[j]]]
  ELSE <<>>

\* The fields handleUpdate hands to set(): the buffer, on Orders with
\* cartItems replaced by cartItemsArray.
UpdateData(s, f) ==
  IF s = "orders" THEN ("cartItems" :> CartItemsArray(f)) @@ f ELSE f

\* The document handleAddNew hands to client.create.
NewDocument(s, f) ==
  CASE s = "users" -> NewUserData(f)
    [] s = "orders" ->
         [status |-> "pending", cartItems |-> CartItemsArray(f)] @@ f
    [] s = "products" ->
         ("category" :>
            (IF Truthy(f, "category") THEN f.category ELSE "Chair")) @@ f

OrderFormFields == {"_id", "fullName", "status"}
ProductFormFields == {"_id", "name", "stockLevel", "category"}

\* order.cartItems.map((item) => item.product._id) throws a TypeError on
\* an item that is null or has no product.
EditThrows(s, r) ==
  /\ s = "orders"
  /\ \E j \in 1..Len(r.cartItems) :
       ~Has(r.cartItems[j], "product") \/ r.cartItems[j].product = Null

\* order.cartItems.map((item) => item.product._id).join(", ")
JoinProductIds(c) == [j \in 1..Len(c) |-> c[j].product._id]

\* The form buffer handleEditClick builds from the clicked record.
EditBuffer(s, r) ==
  CASE s = "users" -> r
    [] s = "orders" ->
         ("cartItems" :> JoinProductIds(r.cartItems)) @@
           Project(r, OrderFormFields)
    [] s = "products" -> Project(r, ProductFormFields)

\* The cards are rendered when loading is false; on Orders a pending card
\* opens the editor and carries Complete, a completed card carries Delete.
CardShown(k) == ~loading /\ k \in 1..Len(list)

UserEvent(h, id) ==
  /\ alert' = NoAlert
  /\ ev' = Ev(h, id)
  /\ UNCHANGED <<screen, db, nextId>>
  /\ UNCHANGED gate

\* A handler that starts a query along with its call.
IssueAndFetch(c, h) ==
  /\ CanIssue
  /\ calls' = calls \o <<c, FetchCall("load")>>
  /\ UserEvent(h, 0)

Issue(c, h) ==
  /\ CanIssue
  /\ calls' = Append(calls, c)
  /\ UserEvent(h, 0)

\* A delete that does not wait for the answer of confirm().
DeleteClickUnasked(k, confirmed) ==
  /\ CardShown(k)
  /\ screen = "orders" => list[k].status = "completed"
  /\ Issue(Call("delete", "delete", list[k]._id, Null, Null),
           IF confirmed THEN "step" ELSE "declined")
  /\ UNCHANGED <<list, loading, editing, showAddForm, formState>>

\* handleDelete up to the await: confirm(), then client.delete(id).
DeleteClick(k, confirmed) ==
  /\ CardShown(k)
  /\ screen = "orders" => list[k].status = "completed"
  /\ IF confirmed
     THEN Issue(Call("delete", "delete", list[k]._id, Null, Null), "step")
     ELSE UserEvent("declined", 0) /\ calls' = calls
  /\ UNCHANGED <<list, loading, editing, showAddForm, formState>>

\* A toggle that requests the flag the message already shows.
TogglePinClickUninverted(k) ==
  /\ screen = "messages"
  /\ CardShown(k)
  /\ Issue(Call("patch", "togglePin", list[k]._id,
                [pinned |-> list[k].pinned], Null), "step")
  /\ UNCHANGED <<list, loading, editing, showAddForm, formState>>

\* togglePin(msg._id, msg.pinned) up to the await.
TogglePinClick(k) ==
  /\ screen = "messages"
  /\ CardShown(k)
  /\ Issue(Call("patch", "togglePin", list[k]._id,
                [pinned |-> ~list[k].pinned], Null), "step")
  /\ UNCHANGED <<list, loading, editing, showAddForm, formState>>

\* handleComplete(order._id) up to the await.
CompleteClick(k) ==
  /\ screen = "orders"
  /\ CardShown(k)
  /\ list[k].status = "pending"
  /\ Issue(Call("patch", "complete", list[k]._id,
                [status |-> "completed"], Null), "step")
  /\ UNCHANGED <<list, loading, editing, showAddForm, formState>>

\* handleEditClick: setEditing(record), setFormState(...), setShowAddForm.
\* On Orders the argument of setFormState may throw; the state set before
\* the throw stays set and the rest of the handler does not run.
EditClick(k) ==
  /\ screen \in FormScreens
  /\ CardShown(k)
  /\ screen = "orders" => list[k].status = "pending"
  /\ editing' = list[k]._id
  /\ IF EditThrows(screen, list[k])
     THEN UNCHANGED <<formState, showAddForm>>
     ELSE /\ formState' = EditBuffer(screen, list[k])
          /\ showAddForm' = (screen = "users")
  /\ UserEvent("edit", list[k]._id)
  /\ UNCHANGED <<calls, list, loading>>

\* The Add New button; on Users it is rendered when no user is edited.
AddClick ==
  /\ screen \in FormScreens
  /\ screen = "users" => ~IsEditing
  /\ showAddForm' = TRUE
  /\ editing' = NoRecord
  /\ formState' = IF screen = "products" THEN [category |-> "Chair"] ELSE Null
  /\ UserEvent("add", 0)
  /\ UNCHANGED <<calls, list, loading>>

\* The Cancel button: handleCancelEdit / handleCancel.
CancelClick ==
  /\ FormRendered
  /\ HandleCancel
  /\ UserEvent("cancel", 0)
  /\ UNCHANGED <<calls, list, loading>>

\* Typing into the form.
FormChange(b) ==
  /\ FormRendered
  /\ b \in FormInputs(screen)
  /\ formState' = ApplyChanges(screen, formState, b)
  /\ UserEvent("step", 0)
  /\ UNCHANGED <<calls, list, loading, editing, showAddForm>>

\* A submit event reaches onSubmit: through the browser's submit button,
\* which first runs constraint validation (native), or dispatched to the
\* form directly.  The second is taken on Users, where handleAddNew tests
\* the fields itself; the handlers of Orders and Products rely on the
\* markup and are given validated submissions.
Submitted(native) ==
  /\ FormRendered
  /\ native => NativeValid(screen, formState)
  /\ ~native => screen = "users"

\* handleUpdate up to the await.
SubmitUpdate(native) ==
  /\ Submitted(native)
  /\ IsEditing
  /\ Issue(Call("patch", "update", editing, UpdateData(screen, formState),
                IF screen = "products" THEN list ELSE Null), "step")
  /\ UNCHANGED <<list, loading, editing, showAddForm, formState>>

\* handleAddNew up to the await: on Users the required-fields test first.
SubmitAdd(native) ==
  /\ Submitted(native)
  /\ ~IsEditing
  /\ IF screen = "users" /\ ~UserFieldsFilled(formState)
     THEN /\ alert' = "Please fill in all required fields."
          /\ ev' = Ev("rejected", 0)
          /\ UNCHANGED <<screen, db, nextId, calls>>
          /\ UNCHANGED gate
     ELSE Issue(Call("create", "create", 0, NewDocument(screen, formState),
                     Null), "submitAdd")
  /\ UNCHANGED <<list, loading, editing, showAddForm, formState>>

MaxCards == MaxId + 1

Next ==
  \/ Refresh
  \/ \E i \in 1..MaxInFlight :
       \/ ServeFetch(i)
       \/ ServeDelete(i)
       \/ ServePatch(i)
       \/ ServeCreate(i)
  \/ \E i \in 1..MaxInFlight, ok \in BOOLEAN :
       \/ LoadDone(i, ok)
       \/ DeleteDone(i, ok)
       \/ TogglePinDone(i, ok)
       \/ CompleteDone(i, ok)
       \/ UpdateDone(i, ok)
       \/ CreateDone(i, ok)
       \/ AddFetchDone(i, ok)
  \/ \E k \in 1..MaxCards :
       \/ \E confirmed \in BOOLEAN : DeleteClick(k, confirmed)
       \/ TogglePinClick(k)
       \/ CompleteClick(k)
       \/ EditClick(k)
  \/ AddClick
  \/ CancelClick
  \/ \E b \in FormInputs(screen) : FormChange(b)
  \/ \E native \in BOOLEAN : SubmitUpdate(native) \/ SubmitAdd(native)

Spec == Init /\ [][Next]_vars

(***************************************************************************)
(* The add form of the Users screen on its own: the list is loaded, Add    *)
(* New User has been clicked and the user has typed into some of the nine  *)
(* required inputs, leaving each untouched, typed and cleared again, or    *)
(* filled; then the form is submitted.                                     *)
(***************************************************************************)
\* The buffer after the inputs 1..j have been visited: c[k] is 0 for an
\* input left alone, 1 for one typed into and cleared, 2 for one filled.
RECURSIVE Typed(_, _)
Typed(c, j) ==
  IF j = 0 THEN Null
  ELSE LET f == Typed(c, j - 1)
       IN IF c[j] = 0 THEN f
          ELSE HandleFormChange("users", f, UserTextInputs[j],
                                IF c[j] = 1 THEN "" ELSE "a")

UserBuffers ==
  {Typed(c, Len(UserTextInputs)) :
     c \in [1..Len(UserTextInputs) -> {0, 1, 2}]}

InitUserForm ==
  /\ GateInit
  /\ screen = "users"
  /\ db = InitDb("users", [i \in 1..MaxId |-> FALSE])
  /\ nextId = 2
  /\ calls = <<>>
  /\ list = <<Local("users", UserDoc(1))>>
  /\ loading = FALSE
  /\ editing = NoRecord
  /\ showAddForm = TRUE
  /\ formState \in UserBuffers
  /\ alert = NoAlert
  /\ ev = Ev("step", 0)

NextUserForm ==
  \/ \E native \in BOOLEAN : SubmitAdd(native)
  \/ \E i \in 1..MaxInFlight : ServeCreate(i)
  \/ \E i \in 1..MaxInFlight, ok \in BOOLEAN : CreateDone(i, ok)

SpecUserForm == InitUserForm /\ [][NextUserForm]_vars

(***************************************************************************)
(* The editor of the Orders screen on an order that has a cart: the screen *)
(* is mounted over one storefront order, and the user loads, opens the     *)
(* form, types, updates and cancels.                                       *)
(***************************************************************************)
InitOrderEdit ==
  /\ GateInit
  /\ screen = "orders"
  /\ db = (1 :> OrderDoc(1))
  /\ nextId = 2
  /\ calls = <<FetchCall("load")>>
  /\ list = <<>>
  /\ loading = TRUE
  /\ editing = NoRecord
  /\ showAddForm = FALSE
  /\ formState = Null
  /\ alert = NoAlert
  /\ ev = Ev("mount", 0)

NextOrderEdit ==
  \/ Refresh
  \/ \E i \in 1..MaxInFlight : ServeFetch(i) \/ ServePatch(i)
  \/ \E i \in 1..MaxInFlight, ok \in BOOLEAN : LoadDone(i, ok) \/ UpdateDone(i, ok)
  \/ \E k \in 1..MaxCards : EditClick(k)
  \/ AddClick
  \/ CancelClick
  \/ \E b \in FormInputs(screen) : FormChange(b)
  \/ \E native \in BOOLEAN : SubmitUpdate(native)

SpecOrderEdit == InitOrderEdit /\ [][NextOrderEdit]_vars

(***************************************************************************)
(* A load that is older than every delete: the Messages, Users or Orders   *)
(* screen after two loads were requested and the first has resolved with   *)
(* the documents of the backend, so that the cards are shown while the     *)
(* second query is on its way; from there the user only deletes.  (On      *)
(* Orders the order has been completed, the Delete button being on the     *)
(* completed cards.)                                                       *)
(***************************************************************************)
InitStaleLoad ==
  /\ GateInit
  /\ screen \in {"messages", "users", "orders"}
  /\ \E pins \in [1..MaxId -> BOOLEAN] :
       db = IF screen = "orders"
            THEN (1 :> [DashboardOrder(1) EXCEPT !.status = "completed"])
            ELSE InitDb(screen, IF screen = "messages" THEN pins
                                ELSE [i \in 1..MaxId |-> FALSE])
  /\ nextId = IF screen = "messages" THEN MaxId + 1 ELSE 2
  /\ calls = <<FetchCall("load")>>
  /\ list = SeqMap(QueryResult(screen, db), LAMBDA d : Local(screen, d))
  /\ loading = FALSE
  /\ editing = NoRecord
  /\ showAddForm = FALSE
  /\ formState = Null
  /\ alert = NoAlert
  /\ ev = Ev("loadOk", 0)

NextStaleLoad ==
  \/ \E i \in 1..MaxInFlight : ServeFetch(i) \/ ServeDelete(i)
  \/ \E i \in 1..MaxInFlight, ok \in BOOLEAN : LoadDone(i, ok) \/ DeleteDone(i, ok)
  \/ \E k \in 1..MaxCards, confirmed \in BOOLEAN : DeleteClick(k, confirmed)

SpecStaleLoad == InitStaleLoad /\ [][NextStaleLoad]_vars

(***************************************************************************)
(* The gated AdminDashboard of the landing page: a login form with one     *)
(* email input until authorized is true, the four links afterwards.        *)
(***************************************************************************)
\* Bound on the length of the text in the email input.
MaxEmailLen == 4

\* The allowed address, "shaikhurwa61@gmail.com", stood for by three of
\* its characters.
AllowedEmail == <<"s", "@", "g">>

\* What a key press can add: the characters of the address in either
\* case, a space, and a character the address does not have.
Keys == {"s", "S", "@", "g", "G", " ", "x"}

\* String.prototype.trim: leading and trailing white space removed.
RECURSIVE TrimStart(_)
TrimStart(t) ==
  IF t # <<>> /\ Head(t) = " " THEN TrimStart(Tail(t)) ELSE t

RECURSIVE TrimEnd(_)
TrimEnd(t) ==
  IF t # <<>> /\ t[Len(t)] = " " THEN TrimEnd(SubSeq(t, 1, Len(t) - 1))
  ELSE t

Trim(t) == TrimEnd(TrimStart(t))

LowerChar(c) ==
  CASE c = "S" -> "s"
    [] c = "G" -> "g"
    [] OTHER -> c

\* String.prototype.toLowerCase
ToLowerCase(t) == [k \in 1..Len(t) |-> LowerChar(t[k])]

ErrUnauthorized ==
  "Unauthorized email. Please enter the correct Gmail address."

GateStep(h) ==
  /\ screen = "dashboard"
  /\ ev' = Ev(h, 0)
  /\ UNCHANGED <<screen, db, nextId, calls, list, loading, editing,
                 showAddForm, formState, alert>>

\* onChange of the email input, rendered while authorized is false:
\* setEmail(e.target.value), the text with a character added at either end
\* or with its last character deleted.
EmailChange ==
  /\ ~authorized
  /\ \/ \E c \in Keys :
          /\ Len(email) < MaxEmailLen
          /\ email' \in {Append(email, c), <<c>> \o email}
     \/ /\ email # <<>>
        /\ email' = SubSeq(email, 1, Len(email) - 1)
  /\ GateStep("step")
  /\ UNCHANGED <<authorized, error>>

\* A submission that lets in every address that holds the allowed one.
HandleSubmitContains ==
  /\ ~authorized
  /\ IF \E i \in 1..(Len(email) - Len(AllowedEmail) + 1) :
          SubSeq(ToLowerCase(email), i, i + Len(AllowedEmail) - 1)
            = AllowedEmail
     THEN authorized' = TRUE /\ error' = ""
     ELSE /\ error' = ErrUnauthorized
          /\ UNCHANGED authorized
  /\ GateStep("submit")
  /\ UNCHANGED email

\* handleSubmit, the onSubmit of the login form.
HandleSubmit ==
  /\ ~authorized
  /\ IF ToLowerCase(Trim(email)) = AllowedEmail
     THEN authorized' = TRUE /\ error' = ""
     ELSE /\ error' = ErrUnauthorized
          /\ UNCHANGED authorized
  /\ GateStep("submit")
  /\ UNCHANGED email

InitGate ==
  /\ GateInit
  /\ screen = "dashboard"
  /\ db = Null
  /\ nextId = 1
  /\ calls = <<>>
  /\ list = <<>>
  /\ loading = FALSE
  /\ editing = NoRecord
  /\ showAddForm = FALSE
  /\ formState = Null
  /\ alert = NoAlert
  /\ ev = Ev("mount", 0)

NextGate == EmailChange \/ HandleSubmit

SpecGate == InitGate /\ [][NextGate]_vars

(***************************************************************************)
(* The claims.                                                             *)
(***************************************************************************)
Count(l, id) == Cardinality({k \in 1..Len(l) : l[k]._id = id})

\* C1: on Users, Orders and Products, once a create call has succeeded and
\* its handler has finished, the local list holds exactly one record with
\* the id the backend assigned.  (On Orders the handler finishes when the
\* fetch it awaits after the create has resolved.)
C1_CreatedExactlyOnce ==
  (\/ ev.h = "createOk" /\ screen \in {"users", "products"}
   \/ ev.h \in {"addFetchOk", "addFetchFailed"})
    => Count(list, ev.id) = 1

\* C2: on every screen, once a confirmed delete(id) has succeeded and its
\* handler has finished, no record with that id is in the local list.
C2_DeletedIsAbsent == ev.h = "deleteOk" => ev.id \notin Ids(list)

\* C3: when a confirmed delete(id) fails, an alert is raised and the
\* handler leaves the local list as it found it: the record still there,
\* no record added, removed or modified.
C3_FailedDeleteChangesNothing ==
  [][ev'.h = "deleteFailed" => alert' # NoAlert /\ list' = list]_vars

C3_Witness ==
  /\ ev.h = "deleteFailed"
  /\ alert = "Failed to delete " \o Noun(screen)
  /\ ev.id \in Ids(list)

\* pinnedMessages followed by unpinnedMessages, as the markup renders them.
Rendered ==
  SelectSeq(list, LAMBDA m : m.pinned) \o SelectSeq(list, LAMBDA m : ~m.pinned)

\* C4: whenever the Messages list is shown, every pinned message renders
\* before every unpinned one and, within each group, messages are in
\* descending order of creation timestamp.
C4_PinnedFirstNewestFirst ==
  (screen = "messages" /\ ~loading) =>
    \A j, k \in 1..Len(Rendered) :
      j < k =>
        /\ Rendered[k].pinned => Rendered[j].pinned
        /\ Rendered[j].pinned = Rendered[k].pinned
             => Rendered[j].createdAt >= Rendered[k].createdAt

\* The step delivers the response of call i, a served call of handler h, to
\* the handler's continuation.
Delivered(i, h) ==
  /\ calls[i].h = h
  /\ calls[i].st = "ok"
  /\ ev' = Ev(h \o "Ok", calls[i].id)
  /\ calls' = RemoveAt(calls, i)

\* C5: when togglePin(id), requested on a message that was shown unpinned,
\* succeeds and the message is in the list, the message is pinned
\* afterwards (so it renders in the pinned partition), its other fields are
\* as they were, and every other message is as it was.
C5_TogglePinPins ==
  [][\A i \in 1..Len(calls) :
       (/\ Delivered(i, "togglePin")
        /\ calls[i].set.pinned
        /\ calls[i].id \in Ids(list))
         => /\ Len(list') = Len(list)
            /\ \A k \in 1..Len(list) :
                 list'[k] = IF list[k]._id = calls[i].id
                            THEN [list[k] EXCEPT !.pinned = TRUE]
                            ELSE list[k]]_vars

C5_Witness ==
  /\ screen = "messages"
  /\ ev.h = "togglePinOk"
  /\ \E k \in 1..Len(list) : list[k]._id = ev.id /\ list[k].pinned
  /\ \E k \in 1..Len(list) : list[k]._id # ev.id /\ ~list[k].pinned

\* C6: an order whose status is completed, in the backend or in the local
\* list, has status completed after every step of the Orders screen's
\* operations (every step but the delivery of a Refresh) in which it is
\* still there.
C6_CompletedStaysCompleted ==
  [][(screen = "orders" /\ ev'.h # "loadOk") =>
       /\ \A id \in DOMAIN db \cap DOMAIN db' :
            db[id].status = "completed" => db'[id].status = "completed"
       /\ \A j \in 1..Len(list), k \in 1..Len(list') :
            (list[j].status = "completed" /\ list'[k]._id = list[j]._id)
              => list'[k].status = "completed"]_vars

PendingOrders(l) == SelectSeq(l, LAMBDA o : o.status = "pending")
CompletedOrders(l) == SelectSeq(l, LAMBDA o : o.status = "completed")

\* C7: when markCompleted(id), which only a pending card offers, succeeds
\* and the order is in the list, the order is not in the pending list and
\* is in the completed list afterwards with its other fields as they were,
\* every other order is as it was, and every order is in exactly one of
\* the two lists.
C7_CompleteMovesOrder ==
  [][\A i \in 1..Len(calls) :
       (/\ Delivered(i, "complete")
        /\ calls[i].id \in Ids(list))
         => /\ Len(list') = Len(list)
            /\ \A k \in 1..Len(list) :
                 list'[k] = IF list[k]._id = calls[i].id
                            THEN [list[k] EXCEPT !.status = "completed"]
                            ELSE list[k]
            /\ calls[i].id \notin Ids(PendingOrders(list'))
            /\ calls[i].id \in Ids(CompletedOrders(list'))
            /\ Len(PendingOrders(list')) + Len(CompletedOrders(list'))
                 = Len(list')]_vars

C7_Witness ==
  /\ screen = "orders"
  /\ ev.h = "completeOk"
  /\ ev.id \in Ids(CompletedOrders(list))
  /\ Len(list) > 1

\* C8: a submission of the add-product form whose buffer has no name or no
\* stock level issues no create call and leaves the list as it is.
C8_NoCreateWithoutNameOrStock ==
  [][(/\ screen = "products"
      /\ ev'.h \in {"submitAdd", "rejected"}
      /\ ~(Truthy(formState, "name") /\ Truthy(formState, "stockLevel")))
       => calls' = calls /\ list' = list]_vars

\* Some one of the nine required fields of the add-user form is empty.
SomeUserFieldEmpty(f) ==
  \/ \E k \in {"name", "email", "mobileNumber", "password"} :
       ~Has(f, k) \/ f[k] = ""
  \/ ~Has(f, "address")
  \/ \E k \in AddressFields : ~Has(f.address, k) \/ f.address[k] = ""

\* C9: a submission of the add-user form with any of name, email, mobile
\* number, password, street, city, state, country or postal code empty
\* raises an alert, issues no create call, and leaves the list, the form
\* buffer and the form (still open, still adding) as they were.
C9_AddUserRejected ==
  [][(/\ screen = "users"
      /\ ev'.h \in {"submitAdd", "rejected"}
      /\ SomeUserFieldEmpty(formState))
       => /\ alert' = "Please fill in all required fields."
          /\ calls' = calls
          /\ list' = list
          /\ formState' = formState
          /\ showAddForm' = showAddForm
          /\ editing' = editing]_vars

C9_Witness ==
  /\ screen = "users"
  /\ ev.h = "rejected"
  /\ alert = "Please fill in all required fields."
  /\ calls = <<>>
  /\ showAddForm
  /\ \A k \in {"name", "email", "mobileNumber", "password"} :
       Truthy(formState, k)
  /\ \A k \in AddressFields \ {"postalCode"} : AddressTruthy(formState, k)
  /\ ~AddressTruthy(formState, "postalCode")

\* C10: on Users, Orders and Products, when update(id, fields) succeeds,
\* the list after the handler is the list before it with the record whose
\* id matches replaced by the document the backend returned: same length,
\* same ids, same positions.
C10_UpdateReplacesInPlace ==
  [][\A i \in 1..Len(calls) :
       Delivered(i, "update")
         => /\ Len(list') = Len(list)
            /\ \A k \in 1..Len(list) :
                 list'[k] = IF list[k]._id = calls[i].id
                            THEN calls[i].res
                            ELSE list[k]]_vars

\* C11: when a patch-based mutation fails (update on Users, Orders or
\* Products, togglePin on Messages, markCompleted on Orders), an alert is
\* raised and the handler leaves the list, the editing target, the form
\* buffer and the form's open or closed state as it found them.
C11_FailedPatchChangesNothing ==
  [][ev'.h \in {"updateFailed", "togglePinFailed", "completeFailed"}
       => /\ alert' # NoAlert
          /\ list' = list
          /\ editing' = editing
          /\ formState' = formState
          /\ showAddForm' = showAddForm]_vars

C11_Witness ==
  /\ ev.h = "updateFailed"
  /\ alert = "Failed to update " \o Noun(screen)
  /\ ev.id \in Ids(list)
  /\ editing = ev.id
  /\ FormRendered
  /\ formState # Null

Fetches(c) == Cardinality({i \in 1..Len(c) : c[i].op = "fetch"})

\* C12: the step that ends a successful create, update, delete, togglePin
\* or markCompleted, on any screen, issues no query to the backend.
C12_NoFetchAfterMutation ==
  [][ev'.h \in {"createOk", "updateOk", "deleteOk", "togglePinOk",
                "completeOk"}
       => Fetches(calls') <= Fetches(calls)]_vars

\* C13: a load whose query succeeds makes the list the query result, record
\* for record (each local record has the id of the document at its place
\* and the document's value in every field it has); a load whose query
\* fails leaves the list as it was; either way loading is false when the
\* handler finishes.
C13_LoadReplacesOrKeeps ==
  [][\A i \in 1..Len(calls) :
       (calls[i].h = "load" /\ calls' = RemoveAt(calls, i))
         => /\ (ev'.h = "loadOk" /\ calls[i].st = "ok")
                 => /\ Len(list') = Len(calls[i].res)
                    /\ \A k \in 1..Len(list') :
                         /\ list'[k]._id = calls[i].res[k]._id
                         /\ DOMAIN list'[k] \subseteq DOMAIN calls[i].res[k]
                         /\ \A x \in DOMAIN list'[k] :
                              list'[k][x] = calls[i].res[k][x]
                    /\ ~loading'
            /\ ev'.h = "loadFailed" => list' = list /\ ~loading']_vars

C13_Witness ==
  /\ ev.h = "loadFailed"
  /\ list # <<>>
  /\ ~loading

\* C14: on Users, Orders and Products the form goes from shown to hidden
\* only in a Cancel or in the continuation of a submission whose create or
\* update call succeeded (on Orders the continuation of a create ends after
\* the fetch it awaits, whatever the fetch's outcome); a submission whose
\* call failed, or that validation rejected, leaves the editing target,
\* the open flag and the buffer as they were.
C14_FormClosesOnCancelOrSuccess ==
  [][/\ (FormRendered /\ ~FormRendered')
          => ev'.h \in {"cancel", "updateOk", "createOk", "addFetchOk",
                        "addFetchFailed"}
     /\ ev'.h \in {"updateFailed", "createFailed", "rejected"}
          => /\ editing' = editing
             /\ showAddForm' = showAddForm
             /\ formState' = formState]_vars

C14_Witness ==
  /\ ev.h = "createFailed"
  /\ FormRendered
  /\ ~IsEditing
  /\ formState # Null
  /\ formState # [category |-> "Chair"]

\* The buffer f holds the field values of record r: the same fields as r
\* with the same values, the cart apart, which the buffer holds as text.
HoldsValuesOf(f, r) ==
  /\ DOMAIN f \ {"cartItems"} = DOMAIN r \ {"cartItems"}
  /\ \A x \in DOMAIN f \ {"cartItems"} : f[x] = r[x]

\* C15: opening "add" sets the buffer to the empty defaults ({} , on
\* Products {category: "Chair"}) and clears the editing target; opening
\* "edit" on a record sets the editing target to that record and the
\* buffer to that record's field values.
C15_OpeningResetsTheForm ==
  [][/\ ev'.h = "add"
          => /\ editing' = NoRecord
             /\ formState' = IF screen = "products"
                              THEN [category |-> "Chair"] ELSE Null
     /\ ev'.h = "edit"
          => /\ editing' = ev'.id
             /\ \E k \in 1..Len(list) :
                  list[k]._id = ev'.id /\ HoldsValuesOf(formState', list[k])]_vars

\* C16: a declined delete confirmation issues no backend call, raises no
\* alert and leaves the list and the form as they were.
C16_DeclinedDeleteIsNoOp ==
  [][ev'.h = "declined"
       => /\ calls' = calls
          /\ db' = db
          /\ alert' = NoAlert
          /\ list' = list
          /\ editing' = editing
          /\ showAddForm' = showAddForm
          /\ formState' = formState]_vars

C16_Witness ==
  /\ ev.h = "declined"
  /\ list # <<>>
  /\ calls = <<>>
  /\ alert = NoAlert

\* The local records a load makes of a query result.
Display(res) == SeqMap(res, LAMBDA d : Local(screen, d))

\* C17: the list after a load has resolved with a result is that result,
\* whether a load requested earlier or later is still in flight; so of two
\* overlapping loads the one that resolves last decides the list.
C17_LastResolvedLoadWins ==
  [][\A i \in 1..Len(calls) :
       (/\ calls[i].h = "load"
        /\ calls[i].st = "ok"
        /\ ev'.h = "loadOk"
        /\ calls' = RemoveAt(calls, i))
         => list' = Display(calls[i].res)]_vars

\* The first of two overlapping loads has resolved and is displayed; the
\* other, whose result is another list, is still to resolve.
C17_Witness ==
  /\ ev.h = "loadOk"
  /\ \E j \in 1..Len(calls) :
       /\ calls[j].h = "load"
       /\ calls[j].st = "ok"
       /\ Display(calls[j].res) # list

Continuations ==
  {h \o o : h \in {"load", "delete", "togglePin", "complete", "update",
                   "create", "addFetch"},
            o \in {"Ok", "Failed"}}

\* C18: a step of a handler puts at most one call in flight, and a
\* continuation that issues a call (the fetch after the create on Orders,
\* the fetch after the delete on Products) does so in the step in which
\* the call it awaited has resolved and left.
C18_OneCallPerAction ==
  [][/\ Len(calls') <= Len(calls) + 1
     /\ ev'.h \in Continuations => Len(calls') <= Len(calls)]_vars

C18_Witness ==
  /\ screen = "orders"
  /\ ev.h = "createOk"
  /\ Len(calls) = 1
  /\ calls[1].h = "addFetch"
  /\ calls[1].st = "sent"

\* C19: loading is true for as long as the query of a load has not
\* resolved.
C19_LoadingWhileLoadUnresolved ==
  (\E i \in 1..Len(calls) : calls[i].op = "fetch") => loading

\* C20: when delete(id) succeeds on an id the list no longer holds (a
\* second delete of it, the first having removed the record), the list is
\* left as it was: nothing is removed and no record is changed.
C20_SecondDeleteChangesNothing ==
  [][\A i \in 1..Len(calls) :
       (Delivered(i, "delete") /\ calls[i].id \notin Ids(list))
         => list' = list]_vars

\* The first of two deletes of one id has removed the record; the second
\* has succeeded in the backend and is about to be delivered.
C20_Witness ==
  /\ ev.h = "deleteOk"
  /\ ev.id \notin Ids(list)
  /\ list # <<>>
  /\ \E j \in 1..Len(calls) :
       calls[j].h = "delete" /\ calls[j].id = ev.id /\ calls[j].st = "ok"

Spaces(n) == [k \in 1..n |-> " "]

\* The text t is the allowed address, each character in either case,
\* between any number of spaces.
IsAllowedAddress(t) ==
  \E i, j \in 0..Len(t) :
    /\ Len(t) = i + Len(AllowedEmail) + j
    /\ SubSeq(t, 1, i) = Spaces(i)
    /\ SubSeq(t, Len(t) - j + 1, Len(t)) = Spaces(j)
    /\ \A k \in 1..Len(AllowedEmail) :
         \/ t[i + k] = AllowedEmail[k]
         \/ AllowedEmail[k] = "s" /\ t[i + k] = "S"
         \/ AllowedEmail[k] = "g" /\ t[i + k] = "G"

\* C21: authorized becomes true only in a submission of the allowed
\* address (trimmed and lower-cased); a submission of any other text
\* leaves authorized false and sets a non-empty error; no step makes
\* authorized false again; the error is empty whenever authorized is true.
C21_GateOpensOnlyForAllowedEmail ==
  [][/\ (~authorized /\ authorized')
          => ev'.h = "submit" /\ IsAllowedAddress(email)
     /\ (ev'.h = "submit" /\ ~IsAllowedAddress(email))
          => ~authorized' /\ error' # ""
     /\ authorized => authorized'
     /\ authorized' => error' = ""]_vars

\* The gate has opened on a text that is not the allowed address letter
\* for letter: it has a space around it or a capital in it.
C21_Witness ==
  /\ ev.h = "submit"
  /\ authorized
  /\ error = ""
  /\ email # AllowedEmail
  /\ Len(email) = MaxEmailLen

\* C22: on Products, when an update succeeds, every record of the list
\* with another id (one appended by a create or brought by a load while
\* the update call was in flight included) is in the list unchanged after
\* the update's handler has finished.
C22_ProductUpdateKeepsOtherRecords ==
  [][\A i \in 1..Len(calls) :
       (screen = "products" /\ Delivered(i, "update"))
         => \A k \in 1..Len(list) :
              list[k]._id # calls[i].id
                => \E j \in 1..Len(list') : list'[j] = list[k]]_vars

\* C23: on Orders, every pending order of the local list has its line
\* items in the expanded shape, each with a product that carries an id (so
\* opening the editor on it does not fail).
C23_PendingOrdersAreExpanded ==
  screen = "orders" =>
    \A k \in 1..Len(list) :
      list[k].status = "pending" =>
        \A j \in 1..Len(list[k].cartItems) :
          /\ Has(list[k].cartItems[j], "product")
          /\ Has(list[k].cartItems[j].product, "_id")

\* C24: no two records of the local list have the same id.
C24_IdsAreUnique ==
  \A j, k \in 1..Len(list) : j # k => list[j]._id # list[k]._id

\* C25: on Users, whenever an editing target is set the form is shown and
\* the form buffer holds that user's id.
C25_EditingUserShowsForm ==
  (screen = "users" /\ IsEditing) =>
    /\ showAddForm
    /\ Has(formState, "_id")
    /\ formState._id = editing

\* C26: on Orders and Products, showAddForm is never true while an editing
\* target is set.
C26_CreatingExcludesEditing ==
  screen \in {"orders", "products"} => ~(showAddForm /\ IsEditing)

\* C27: when a create call resolves successfully while the editor is open
\* on a record, or an update call while the form is open on anything but
\* the record it updated (sessions opened after the submission), the
\* editing target and the form buffer are left as they were.
C27_CompletionClosesOwnSessionOnly ==
  [][/\ (ev'.h \in {"createOk", "addFetchOk", "addFetchFailed"} /\ IsEditing)
          => editing' = editing /\ formState' = formState
     /\ (ev'.h = "updateOk" /\ FormRendered /\ editing # ev'.id)
          => editing' = editing /\ formState' = formState]_vars

\* C28: whenever loading is false, no query of a load is outstanding.
C28_NotLoadingMeansNoLoadInFlight ==
  ~loading => \A i \in 1..Len(calls) : calls[i].h # "load"

\* C29: a load requested before a delete does not bring back a record the
\* delete has removed from the list: where every load is older than every
\* delete, a load that resolves puts no record in the list that the list
\* did not have.
C29_StaleLoadBringsNothingBack ==
  [][ev'.h = "loadOk" => Ids(list') \subseteq Ids(list)]_vars

\* C30 as stated: two togglePin calls on the same message that are in
\* flight together (issued before either response has resolved) request
\* the same value.
C30_OverlappingTogglesAgree ==
  \A i, j \in 1..Len(calls) :
    (/\ calls[i].h = "togglePin"
     /\ calls[j].h = "togglePin"
     /\ calls[i].id = calls[j].id)
      => calls[i].set.pinned = calls[j].set.pinned

\* C30 as amended: a togglePin call requests the inverse of the flag the
\* message displays when it is clicked; when the backend applies it the
\* document's flag is the requested value, and when its response is
\* delivered the flag of the message in the list is the requested value.
\* (So two calls clicked on the same displayed flag request the same value
\* and leave it, in the backend and in the list, in whatever order they
\* are applied and delivered.)
C30_ToggleWritesInverseOfDisplayed ==
  [][/\ (/\ Len(calls') = Len(calls) + 1
         /\ calls'[Len(calls')].h = "togglePin")
          => \E k \in 1..Len(list) :
               /\ list[k]._id = calls'[Len(calls')].id
               /\ calls'[Len(calls')].set.pinned = ~list[k].pinned
     /\ \A i \in 1..Len(calls) :
          calls[i].h = "togglePin"
            => /\ (/\ Len(calls') = Len(calls)
                   /\ calls[i].st = "sent"
                   /\ calls'[i].st = "ok")
                    => db'[calls[i].id].pinned = calls[i].set.pinned
               /\ Delivered(i, "togglePin")
                    => \A k \in 1..Len(list') :
                         list'[k]._id = calls[i].id
                           => list'[k].pinned = calls[i].set.pinned]_vars

\* Two toggles of one message that request the same value have both been
\* applied; the response of one has been delivered, the other is to come.
C30_Witness ==
  /\ ev.h = "togglePinOk"
  /\ \E j \in 1..Len(calls), k \in 1..Len(list) :
       /\ calls[j].h = "togglePin"
       /\ calls[j].id = ev.id
       /\ calls[j].st = "ok"
       /\ list[k]._id = ev.id
       /\ list[k].pinned = calls[j].set.pinned
       /\ db[ev.id].pinned = calls[j].set.pinned
====
